---- MODULE Spec2Model ----
(***************************************************************************)
(* A model of the DATAQ DI-718B client (dataq.c): the command/echo         *)
(* protocol (dataq_cmd), the connection lifecycle (dataq_connect,          *)
(* dataq_close) and the streaming receiver (dataq_recv) with its scoped    *)
(* signal handling.  Bytes are integers 0..255, ASCII text is a sequence   *)
(* of character codes, return values are the negated sysexits.h codes.     *)
(***************************************************************************)
EXTENDS Integers, Sequences, FiniteSets, TLC

VARIABLES
    \* ---- connection lifecycle (dataq_connect / dataq_cmd / dataq_close)
    pc,         \* position of the caller inside dataq_connect / dataq_close
    args,       \* arguments of the dataq_connect call
    fd,         \* state of the socket created by the call
    cmdno,      \* which initialization command dataq_cmd is working on (1..5)
    wn,         \* result of the last write() of dataq_cmd
    resp,       \* bytes recv() stored in resp[] in the last dataq_cmd
    rn,         \* result of the last recv() of dataq_cmd
    cmdlog,     \* the dataq_cmd calls that returned: text, wn, rn, resp, res
    ret,        \* return value of dataq_connect
    netlog,     \* system calls made on the network so far, in order
    sent,       \* every write(): the bytes offered and the count accepted
    devq,       \* writes accepted by the transport, not yet seen by the device
    rx,         \* bytes waiting in the socket's receive queue
    streaming,  \* whether the device is streaming samples
    spam,       \* stream bytes the device has emitted so far
    surplus,    \* whether the device answered with more than the echo
    answers,    \* what the device sent back for each command it received
    closeAt,    \* length of netlog when dataq_close was called
    \* ---- streaming receiver (dataq_recv) and the process's signals
    rpc,        \* position of the caller inside dataq_recv
    n_chans,    \* dataq_recv's parameter n_chans
    n_bytes,    \* dataq_recv's local n_bytes
    disp,       \* the process's disposition of each termination signal
    saved,      \* dataq_recv's locals sigint, sighup, sigterm
    signalled,  \* the global flag trap() sets
    nrecv,      \* dataq_recv's local n, the result of recv()
    buf,        \* the first bytes of dataq_recv's static buffer
    c,          \* dataq_recv's 8-bit channel counter
    values,     \* the caller's values[] array
    tvset,      \* whether the call stored a timestamp in *tv
    rret,       \* return value of dataq_recv
    alive,      \* FALSE once a default disposition terminated the process
    calls,      \* dataq_recv calls made so far
    ndeliv,     \* termination signals delivered so far
    disp0,      \* disp when the current call started
    values0,    \* values when the current call started
    observed,   \* signalled as the current call read it after the recv()
    inwin,      \* per signal: deliveries during the current call's recv()
    refired,    \* per signal: times the current call re-raised it
    \* ---- the sample stream, the command-line loop, the codec's inputs
    frames,     \* the frames the device has put on the wire, in order
    arrived,    \* how many bytes of them have reached the socket
    taken,      \* how many bytes of them dataq_recv's recv() has consumed
    reads,      \* the dataq_recv calls that returned: at, n, res, values
    ndeliv0,    \* ndeliv when the current call started
    mpc,        \* position of main
    wreq,       \* byte count dataq_cmd passes to write()
    rreq,       \* byte count passed to recv()
    in_v,       \* a 16-bit sample word given to the decoding statements
    in_fullscale, \* the parameter fullscale given to them
    in_fudge,   \* the parameter fudge given to them
    out_v14,    \* the 14-bit value they extracted
    out_conv    \* the value they converted it to, a numerator over 2^13

lifeVars == <<pc, args, fd, cmdno, wn, resp, rn, cmdlog, ret, netlog, sent,
              devq, rx, streaming, spam, surplus, answers, closeAt>>

recvVars == <<rpc, n_chans, n_bytes, disp, saved, signalled, nrecv, buf, c,
              values, tvset, rret, alive, calls, ndeliv, disp0, values0,
              observed, inwin, refired>>

strVars == <<frames, arrived, taken, reads>>

fmtVars == <<wreq, rreq>>

codecVars == <<in_v, in_fullscale, in_fudge, out_v14, out_conv>>

extVars == <<strVars, ndeliv0, mpc, fmtVars, codecVars>>

vars == <<lifeVars, recvVars, extVars>>

\* ------------------------------------------------------------------ bounds
MaxSpam == 1
MaxChans == 3
MaxSignals == 2

\* --------------------------------------------------------------- constants
EX_OK == 0
EX_DATAERR == 65
EX_NOHOST == 68
EX_UNAVAILABLE == 69
EX_IOERR == 74
EX_PROTOCOL == 76

MAXCHAN == 32
SIGHUP == 1
SIGINT == 2
SIGTERM == 15
CmdBufSize == 256
DrainBufSize == 32
SockFd == 3

\* The call has not returned: a value none of the functions returns.
NoRet == -999

\* The argument slots before dataq_connect is called; nothing reads them then.
NoArgs == [timerscaler |-> 0, rate_divisor |-> 0, scanlist |-> <<>>,
           n_chans |-> 0]

Min(a, b) == IF a < b THEN a ELSE b

\* ------------------------------------------------------------- formatting
\* One hexadecimal digit, upper case (%X).
HexDigit(d) == IF d < 10 THEN 48 + d ELSE 55 + d

RECURSIVE HexDigits(_)
HexDigits(v) ==
    IF v < 16 THEN <<HexDigit(v)>>
    ELSE Append(HexDigits(v \div 16), HexDigit(v % 16))

RECURSIVE ZeroPad(_, _)
ZeroPad(s, width) == IF Len(s) >= width THEN s ELSE ZeroPad(<<48>> \o s, width)

\* printf's %0<width>X of an int: the argument is converted as unsigned int,
\* so a negative value prints its 32-bit two's complement (8 digits).
FmtHex(v, width) ==
    IF v >= 0 THEN ZeroPad(HexDigits(v), width)
    ELSE LET w == v + 2147483647 + 1
         IN  <<HexDigit(8 + (w \div 268435456))>>
             \o ZeroPad(HexDigits(w % 268435456), 7)

\* The formatted text of the five initialization commands, in call order.
CmdText(a, k) ==
    CASE k = 1 -> <<88>> \o FmtHex(a.timerscaler, 2)
      [] k = 2 -> <<77>> \o FmtHex(a.rate_divisor, 4)
      [] k = 3 -> <<76, 48, 48>> \o a.scanlist
      [] k = 4 -> <<67>> \o FmtHex(a.n_chans, 2)
      [] k = 5 -> <<83, 51>>

NumCmds == 5

\* vsnprintf(&cmd[1], sizeof(cmd) - 1, fmt, args): stores at most
\* sizeof(cmd) - 2 characters and returns the length of the whole text.
VsnprintfLen(text) == Len(text)

\* cmd[] after the formatting: the leading null, the stored text, nulls.
CmdBuf(text) ==
    [i \in 1..CmdBufSize |->
        IF i >= 2 /\ i - 1 <= Min(Len(text), CmdBufSize - 2) THEN text[i - 1]
        ELSE 0]

\* The 1 + len bytes write() is asked to send.
CmdBytes(text) == SubSeq(CmdBuf(text), 1, 1 + VsnprintfLen(text))

StopBytes == <<0, 84, 48>>

\* -------------------------------------------------------------- the inputs
TimerScalers == {2, 171}
RateDivisors == {0}
ScanLists == {<<69, 48, 48, 48>>}
ChanCounts == {6, 32, 33}

ArgSet == [timerscaler : TimerScalers, rate_divisor : RateDivisors,
           scanlist : ScanLists, n_chans : ChanCounts]

\* Bytes the peer may send after the echo it owes, and a byte of sample data.
JunkBytes == {50}
StreamBytes == {129}

\* --------------------------------------------------------------- transport
\* write(fd, buf, count) on a stream socket: an error, or the number of bytes
\* the transport accepted, which may be any number from none to count.
WriteResults(count) == {-1} \cup (0..count)

\* recv(fd, buf, len, MSG_WAITALL) with SO_RCVTIMEO set: len bytes when the
\* queue holds them; otherwise the call ends on the timeout or on the peer's
\* close with the bytes there are, and with -1 (timeout, error) or 0 (EOF)
\* when there are none.
RecvWaitAll(queue, len) ==
    IF Len(queue) >= len /\ len > 0
    THEN {[n |-> len, data |-> SubSeq(queue, 1, len),
           rest |-> SubSeq(queue, len + 1, Len(queue))]}
    ELSE IF Len(queue) > 0
    THEN {[n |-> Len(queue), data |-> queue, rest |-> <<>>]}
    ELSE {[n |-> -1, data |-> <<>>, rest |-> <<>>],
          [n |-> 0, data |-> <<>>, rest |-> <<>>]}

\* recv(fd, buf, sizeof(buf), MSG_DONTWAIT): what is queued, up to the buffer
\* size, or at once -1 (EAGAIN) or 0 (EOF) when nothing is queued.
RecvDontWait(queue, size) ==
    IF Len(queue) > 0
    THEN {[n |-> Min(Len(queue), size),
           rest |-> SubSeq(queue, Min(Len(queue), size) + 1, Len(queue))]}
    ELSE {[n |-> -1, rest |-> <<>>], [n |-> 0, rest |-> <<>>]}

\* ------------------------------------------------------------- the device
\* What the peer may send back for a command text it received: the echo, any
\* proper prefix of it, the echo with one byte changed, or the echo followed
\* by one more byte.
Corrupt(text, i) == [text EXCEPT ![i] = 63]

Responses(text) ==
    {text}
    \cup {SubSeq(text, 1, k) : k \in 0..(Len(text) - 1)}
    \cup {Corrupt(text, i) : i \in 1..Len(text)}
    \cup {Append(text, b) : b \in JunkBytes}

IsPrefix(s, t) == Len(s) <= Len(t) /\ SubSeq(t, 1, Len(s)) = s

\* The device takes the next write the transport delivered to it.
DevHandle ==
    /\ fd = "connected"
    /\ devq # <<>>
    /\ LET w == Head(devq)
           text == IF w[1] = 0 THEN Tail(w) ELSE w
       IN  IF IsPrefix(w, StopBytes)
           THEN /\ streaming' = IF w = StopBytes THEN FALSE ELSE streaming
                /\ UNCHANGED <<rx, surplus, answers>>
           ELSE \E r \in Responses(text) :
                  /\ Len(r) > Len(text) => ~surplus
                  /\ surplus' = (surplus \/ Len(r) > Len(text))
                  /\ rx' = rx \o r
                  /\ answers' = Append(answers, r)
                  /\ streaming' = IF text = <<83, 51>> /\ IsPrefix(text, r)
                                  THEN TRUE ELSE streaming
    /\ devq' = Tail(devq)
    /\ UNCHANGED <<recvVars, extVars>>
    /\ UNCHANGED <<pc, args, fd, cmdno, wn, resp, rn, cmdlog, ret, netlog,
                   sent, spam, closeAt>>

\* A streaming device emits one more byte of sample data.
DevStream ==
    /\ fd = "connected"
    /\ streaming
    /\ spam < MaxSpam
    /\ \E b \in StreamBytes : rx' = Append(rx, b)
    /\ spam' = spam + 1
    /\ UNCHANGED <<recvVars, extVars>>
    /\ UNCHANGED <<pc, args, fd, cmdno, wn, resp, rn, cmdlog, ret, netlog,
                   sent, devq, streaming, surplus, answers, closeAt>>

\* -------------------------------------------------------------- dataq_cmd
\* The checks dataq_cmd makes on the result of its write().
CmdWriteResult(n) ==
    IF n < 0 THEN -EX_IOERR
    ELSE IF n = 0 THEN -EX_UNAVAILABLE
    ELSE EX_OK

\* resp[] after the recv(): the bytes read, then the initial nulls.
RespBuf(data) ==
    [i \in 1..CmdBufSize |-> IF i <= Len(data) THEN data[i] ELSE 0]

\* memcmp(&cmd[1], resp, len) # 0
Memcmp(text, data, len) ==
    \E i \in 1..len : CmdBuf(text)[i + 1] # RespBuf(data)[i]

\* The checks on the recv() result without the comparison of the bytes.
CmdRecvResultNoMemcmp(text, n, data) ==
    IF n < 0 THEN -EX_IOERR
    ELSE IF n = 0 THEN -EX_UNAVAILABLE
    ELSE IF n # VsnprintfLen(text) THEN -EX_PROTOCOL
    ELSE EX_OK

\* The checks dataq_cmd makes on the result of its recv().
CmdRecvResult(text, n, data) ==
    IF n < 0 THEN -EX_IOERR
    ELSE IF n = 0 THEN -EX_UNAVAILABLE
    ELSE IF n # VsnprintfLen(text) THEN -EX_PROTOCOL
    ELSE IF Memcmp(text, data, VsnprintfLen(text)) THEN -EX_PROTOCOL
    ELSE EX_OK

\* ---------------------------------------------------------- dataq_connect
LifeInit ==
    /\ pc = "idle"
    /\ args = NoArgs
    /\ fd = "none"
    /\ cmdno = 0
    /\ wn = 0
    /\ resp = <<>>
    /\ rn = 0
    /\ cmdlog = <<>>
    /\ ret = NoRet
    /\ netlog = <<>>
    /\ sent = <<>>
    /\ devq = <<>>
    /\ rx = <<>>
    /\ streaming \in BOOLEAN
    /\ spam = 0
    /\ surplus = FALSE
    /\ answers = <<>>
    /\ closeAt = 0

\* The sanity check with its bound off by one.
TooManyChansOffByOne(nch) == nch > MAXCHAN + 1

\* The sanity check of the parameters.
TooManyChans(nch) == nch > MAXCHAN

\* The call and its sanity check of the parameters.
Connect(a) ==
    /\ pc = "idle"
    /\ args' = a
    /\ IF TooManyChans(a.n_chans)
       THEN /\ ret' = -EX_DATAERR
            /\ pc' = "failed"
       ELSE /\ pc' = "socket"
            /\ UNCHANGED ret
    /\ UNCHANGED <<recvVars, extVars>>
    /\ UNCHANGED <<fd, cmdno, wn, resp, rn, cmdlog, netlog, sent, devq, rx,
                   streaming, spam, surplus, answers, closeAt>>

\* socket(AF_INET, SOCK_STREAM, 0)
Socket ==
    /\ pc = "socket"
    /\ netlog' = Append(netlog, "socket")
    /\ \E ok \in BOOLEAN :
         IF ok THEN /\ fd' = "open"
                    /\ pc' = "setsockopt"
                    /\ UNCHANGED ret
         ELSE /\ ret' = -EX_UNAVAILABLE
              /\ pc' = "failed"
              /\ UNCHANGED fd
    /\ UNCHANGED <<recvVars, extVars>>
    /\ UNCHANGED <<args, cmdno, wn, resp, rn, cmdlog, sent, devq, rx,
                   streaming, spam, surplus, answers, closeAt>>

\* setsockopt(sockfd, SOL_SOCKET, SO_RCVTIMEO, ...)
Setsockopt ==
    /\ pc = "setsockopt"
    /\ netlog' = Append(netlog, "setsockopt")
    /\ \E ok \in BOOLEAN :
         IF ok THEN /\ pc' = "gethostbyname"
                    /\ UNCHANGED ret
         ELSE /\ ret' = -EX_UNAVAILABLE
              /\ pc' = "failed"
    /\ UNCHANGED <<recvVars, extVars>>
    /\ UNCHANGED <<args, fd, cmdno, wn, resp, rn, cmdlog, sent, devq, rx,
                   streaming, spam, surplus, answers, closeAt>>

\* gethostbyname(hostname)
Gethostbyname ==
    /\ pc = "gethostbyname"
    /\ netlog' = Append(netlog, "gethostbyname")
    /\ \E ok \in BOOLEAN :
         IF ok THEN /\ pc' = "tcpconnect"
                    /\ UNCHANGED ret
         ELSE /\ ret' = -EX_NOHOST
              /\ pc' = "failed"
    /\ UNCHANGED <<recvVars, extVars>>
    /\ UNCHANGED <<args, fd, cmdno, wn, resp, rn, cmdlog, sent, devq, rx,
                   streaming, spam, surplus, answers, closeAt>>

\* connect(sockfd, &serveraddr, ...)
TcpConnect ==
    /\ pc = "tcpconnect"
    /\ netlog' = Append(netlog, "connect")
    /\ \E ok \in BOOLEAN :
         IF ok THEN /\ fd' = "connected"
                    /\ pc' = "stop"
                    /\ UNCHANGED ret
         ELSE /\ ret' = -EX_UNAVAILABLE
              /\ pc' = "failed"
              /\ UNCHANGED fd
    /\ UNCHANGED <<recvVars, extVars>>
    /\ UNCHANGED <<args, cmdno, wn, resp, rn, cmdlog, sent, devq, rx,
                   streaming, spam, surplus, answers, closeAt>>

\* write(sockfd, "\0T0", 3): only -1 is an error here.
StopWrite ==
    /\ pc = "stop"
    /\ netlog' = Append(netlog, "write")
    /\ \E n \in WriteResults(Len(StopBytes)) :
         /\ sent' = Append(sent, [bytes |-> StopBytes, n |-> n])
         /\ devq' = IF n > 0 THEN Append(devq, SubSeq(StopBytes, 1, n))
                    ELSE devq
         /\ IF n = -1
            THEN /\ ret' = -EX_IOERR
                 /\ pc' = "failed"
            ELSE /\ pc' = "drain"
                 /\ UNCHANGED ret
    /\ UNCHANGED <<recvVars, extVars>>
    /\ UNCHANGED <<args, fd, cmdno, wn, resp, rn, cmdlog, rx, streaming,
                   spam, surplus, answers, closeAt>>

\* One turn of  while (recv(sockfd, buf, sizeof(buf), MSG_DONTWAIT) > 0);
\* after the usleep; the loop ends on the first result that is not positive.
Drain ==
    /\ pc = "drain"
    /\ netlog' = Append(netlog, "recv")
    /\ \E r \in RecvDontWait(rx, DrainBufSize) :
         /\ rx' = r.rest
         /\ IF r.n > 0
            THEN UNCHANGED <<pc, cmdno>>
            ELSE /\ pc' = "cmd_write"
                 /\ cmdno' = 1
    /\ UNCHANGED <<recvVars, extVars>>
    /\ UNCHANGED <<args, fd, wn, resp, rn, cmdlog, ret, sent, devq,
                   streaming, spam, surplus, answers, closeAt>>

\* do_cmd without its return on error: the next command is sent regardless.
DoCmdIgnoresError(res) ==
    IF cmdno < NumCmds
    THEN /\ cmdno' = cmdno + 1
         /\ pc' = "cmd_write"
         /\ UNCHANGED ret
    ELSE /\ ret' = SockFd
         /\ pc' = "connected"
         /\ UNCHANGED cmdno

\* The do_cmd macro applied to the result of a dataq_cmd call: dataq_connect
\* returns the result unless it is EX_OK, else goes on to the next command,
\* and after the last one returns sockfd.
DoCmd(res) ==
    IF res # EX_OK
    THEN /\ ret' = res
         /\ pc' = "failed"
         /\ UNCHANGED cmdno
    ELSE IF cmdno < NumCmds
    THEN /\ cmdno' = cmdno + 1
         /\ pc' = "cmd_write"
         /\ UNCHANGED ret
    ELSE /\ ret' = SockFd
         /\ pc' = "connected"
         /\ UNCHANGED cmdno

\* dataq_cmd, first half: format the command and write it.
CmdWrite ==
    /\ pc = "cmd_write"
    /\ netlog' = Append(netlog, "write")
    /\ LET text == CmdText(args, cmdno)
       IN  \E n \in WriteResults(1 + VsnprintfLen(text)) :
             /\ wn' = n
             /\ sent' = Append(sent, [bytes |-> CmdBytes(text), n |-> n])
             /\ devq' = IF n > 0
                        THEN Append(devq, SubSeq(CmdBytes(text), 1, n))
                        ELSE devq
             /\ IF CmdWriteResult(n) = EX_OK
                THEN /\ pc' = "cmd_recv"
                     /\ UNCHANGED <<ret, cmdlog, cmdno>>
                ELSE /\ cmdlog' = Append(cmdlog,
                            [text |-> text, wn |-> n, rn |-> rn,
                             resp |-> <<>>, res |-> CmdWriteResult(n)])
                     /\ DoCmd(CmdWriteResult(n))
    /\ UNCHANGED <<recvVars, extVars>>
    /\ UNCHANGED <<args, fd, resp, rn, rx, streaming, spam, surplus, answers,
                   closeAt>>

\* dataq_cmd, second half: read the echo back and compare it.
CmdRecv ==
    /\ pc = "cmd_recv"
    /\ netlog' = Append(netlog, "recv")
    /\ LET text == CmdText(args, cmdno)
       IN  \E r \in RecvWaitAll(rx, VsnprintfLen(text)) :
             LET res == CmdRecvResult(text, r.n, r.data)
             IN  /\ rn' = r.n
                 /\ resp' = r.data
                 /\ rx' = r.rest
                 /\ cmdlog' = Append(cmdlog,
                        [text |-> text, wn |-> wn, rn |-> r.n,
                         resp |-> r.data, res |-> res])
                 /\ DoCmd(res)
    /\ UNCHANGED <<recvVars, extVars>>
    /\ UNCHANGED <<args, fd, wn, sent, devq, streaming, spam, surplus, answers, closeAt>>

\* ------------------------------------------------------------ dataq_close
\* The caller hands the connection to dataq_close.
Close ==
    /\ pc = "connected"
    /\ pc' = "cl_stop"
    /\ closeAt' = Len(netlog)
    /\ UNCHANGED <<recvVars, extVars>>
    /\ UNCHANGED <<args, fd, cmdno, wn, resp, rn, cmdlog, ret, netlog, sent,
                   devq, rx, streaming, spam, surplus, answers>>

\* The stop write of dataq_close returning on error, as dataq_connect's does.
CloseStopReturnsOnError ==
    /\ pc = "cl_stop"
    /\ netlog' = Append(netlog, "write")
    /\ \E n \in WriteResults(Len(StopBytes)) :
         /\ sent' = Append(sent, [bytes |-> StopBytes, n |-> n])
         /\ devq' = IF n > 0 THEN Append(devq, SubSeq(StopBytes, 1, n))
                    ELSE devq
         /\ pc' = IF n = -1 THEN "closed" ELSE "cl_drain"
    /\ UNCHANGED <<recvVars, extVars>>
    /\ UNCHANGED <<args, fd, cmdno, wn, resp, rn, cmdlog, ret, rx, streaming,
                   spam, surplus, answers, closeAt>>

\* write(sockfd, "\0T0", 3), its result ignored.
CloseStop ==
    /\ pc = "cl_stop"
    /\ netlog' = Append(netlog, "write")
    /\ \E n \in WriteResults(Len(StopBytes)) :
         /\ sent' = Append(sent, [bytes |-> StopBytes, n |-> n])
         /\ devq' = IF n > 0 THEN Append(devq, SubSeq(StopBytes, 1, n))
                    ELSE devq
    /\ pc' = "cl_drain"
    /\ UNCHANGED <<recvVars, extVars>>
    /\ UNCHANGED <<args, fd, cmdno, wn, resp, rn, cmdlog, ret, rx, streaming,
                   spam, surplus, answers, closeAt>>

\* One turn of the drain loop of dataq_close.
CloseDrain ==
    /\ pc = "cl_drain"
    /\ netlog' = Append(netlog, "recv")
    /\ \E r \in RecvDontWait(rx, DrainBufSize) :
         /\ rx' = r.rest
         /\ pc' = IF r.n > 0 THEN "cl_drain" ELSE "cl_close"
    /\ UNCHANGED <<recvVars, extVars>>
    /\ UNCHANGED <<args, fd, cmdno, wn, resp, rn, cmdlog, ret, sent, devq,
                   streaming, spam, surplus, answers, closeAt>>

\* close(sockfd)
CloseRelease ==
    /\ pc = "cl_close"
    /\ netlog' = Append(netlog, "close")
    /\ fd' = "closed"
    /\ pc' = "closed"
    /\ UNCHANGED <<recvVars, extVars>>
    /\ UNCHANGED <<args, cmdno, wn, resp, rn, cmdlog, ret, sent, devq, rx,
                   streaming, spam, surplus, answers, closeAt>>

\* ------------------------------------------------------------ bit helpers
RECURSIVE BitAnd(_, _)
BitAnd(a, b) ==
    IF a = 0 \/ b = 0 THEN 0
    ELSE (a % 2) * (b % 2) + 2 * BitAnd(a \div 2, b \div 2)

RECURSIVE BitOr(_, _)
BitOr(a, b) ==
    IF a = 0 THEN b
    ELSE IF b = 0 THEN a
    ELSE (IF a % 2 = 1 \/ b % 2 = 1 THEN 1 ELSE 0)
         + 2 * BitOr(a \div 2, b \div 2)

Shr(a, k) == a \div (2 ^ k)

\* ----------------------------------------------------------------- signals
Signals == {SIGINT, SIGHUP, SIGTERM}

\* A disposition is the default action (which terminates the process for
\* these three signals), SIG_IGN, the driver's trap(), or a handler of the
\* caller's own.
Dispositions == {"SIG_DFL", "SIG_IGN", "trap", "handler"}

\* The dispositions a caller may have in place when it calls dataq_recv:
\* the same one for the three signals, or a different one for each.
CallerDisps ==
    {[s \in Signals |-> d] : d \in Dispositions}
    \cup {[s \in Signals |->
             IF s = SIGINT THEN "handler"
             ELSE IF s = SIGHUP THEN "SIG_IGN" ELSE "SIG_DFL"]}

\* static void trap(int sig)
trap(sig) == signalled' = sig

\* What the process does with signal sig under the disposition it has in the
\* state reached so far (dnow, the flag being flag): trap() stores the
\* number, the default action ends the process, the rest leaves both alone.
SignalEffect(sig, dnow, flag) ==
    [flag  |-> IF dnow[sig] = "trap" THEN sig ELSE flag,
     alive |-> dnow[sig] # "SIG_DFL"]

\* --------------------------------------------------------------- the frame
\* Sample words the device may send: sync bits 0x0100 (0x0120), 0x0101
\* (0xFFFF), 0x0001 (0x0001) and 0x0000 (0x0000).
Words == {288, 65535, 1, 0}

\* Words whose sync bits fit the first channel, the other channels, neither.
SyncWords == {288, 65535, 1}

Frames(k, words) == [1..k -> words]

\* The bytes of a frame in the order of the wire (the low byte first, as the
\* little-endian host reads them back).
FrameBytes(frame) ==
    [i \in 1..(2 * Len(frame)) |->
        IF i % 2 = 1 THEN frame[(i + 1) \div 2] % 256
        ELSE frame[i \div 2] \div 256]

\* buf[ch] of the uint16_t buffer, from its bytes.
BufWord(bytes, ch) == bytes[2 * ch + 1] + 256 * bytes[2 * ch + 2]

\* recv() stores its data at the start of the buffer; the rest stays.
StoreBytes(bytes, data) ==
    [i \in 1..Len(bytes) |-> IF i <= Len(data) THEN data[i] ELSE bytes[i]]

\* What the blocking recv(sockfd, buf, n_bytes, MSG_WAITALL) may return for a
\* frame on its way: an error, end of file, a part of the frame (its first
\* byte, all but its last byte), or all of it.
ReadResults(frame, count) ==
    {[n |-> -1, data |-> <<>>], [n |-> 0, data |-> <<>>]}
    \cup {[n |-> k, data |-> SubSeq(FrameBytes(frame), 1, k)] :
            k \in {1, count - 1, count} \cap (1..count)}

\* ---------------------------------------------------------------- decoding
\* v & 0x0101
Lsbs(v) == BitAnd(v, 257)

\* The sync check expecting the marker 0x0101 on every channel.
SyncMismatchSameMarker(ch, lsbs) == lsbs # 257

\* The sync check looking at bit 8 only, the same on every channel.
SyncMismatchHighBitOnly(ch, lsbs) == lsbs < 256

\* (c == 0 && lsbs != 0x0100) || (c != 0 && lsbs != 0x0101)
SyncMismatch(ch, lsbs) ==
    \/ ch = 0 /\ lsbs # 256
    \/ ch # 0 /\ lsbs # 257

\* The extraction with the mask 0xFF00 for the high part.
Extract14WholeHighByte(v) ==
    BitOr(Shr(BitAnd(v, 65280), 2), Shr(BitAnd(v, 254), 1))

\* ((v & 0xFE00) >> 2) | ((v & 0x00FE) >> 1)
Extract14(v) == BitOr(Shr(BitAnd(v, 65024), 2), Shr(BitAnd(v, 254), 1))

\* The conversion centred one count too low.
ConvOffCentre(v14, fullscale, fudge) == fudge * fullscale * (v14 - 8191)

\* fudge * fullscale * (((1.0 * v14) / (1 << 13)) - 1), as the numerator of
\* a fraction over 2^13 (exact for the whole fudge and fullscale used here).
Conv(v14, fullscale, fudge) == fudge * fullscale * (v14 - 8192)

FullScale == 20
Fudge == 1

\* What the caller's array holds before a call.
OldValue == -1

\* -------------------------------------------------------------- dataq_recv
RecvVarsInit ==
    /\ rpc = "idle"
    /\ n_chans = 0
    /\ n_bytes = 0
    /\ saved = [s \in Signals |-> "SIG_DFL"]
    /\ signalled = 0
    /\ nrecv = 0
    /\ buf = [i \in 1..(2 * MaxChans) |-> 0]
    /\ c = 0
    /\ values = [ch \in 0..(MaxChans - 1) |-> OldValue]
    /\ tvset = FALSE
    /\ rret = NoRet
    /\ alive = TRUE
    /\ calls = 0
    /\ ndeliv = 0
    /\ disp0 = disp
    /\ values0 = values
    /\ observed = 0
    /\ inwin = [s \in Signals |-> 0]
    /\ refired = [s \in Signals |-> 0]

\* The caller calls dataq_recv(sockfd, values, nch, fullscale, fudge, &tv),
\* for at most maxcalls calls in all.
RecvCall(nch, maxcalls) ==
    /\ rpc = "idle"
    /\ alive
    /\ calls < maxcalls
    /\ calls' = calls + 1
    /\ n_chans' = nch
    /\ n_bytes' = 2 * nch
    /\ values' = [ch \in 0..(MaxChans - 1) |-> OldValue]
    /\ values0' = values'
    /\ disp0' = disp
    /\ observed' = 0
    /\ inwin' = [s \in Signals |-> 0]
    /\ refired' = [s \in Signals |-> 0]
    /\ tvset' = FALSE
    /\ rret' = NoRet
    /\ nrecv' = 0
    /\ c' = 0
    /\ rpc' = "inst_int"
    /\ ndeliv0' = ndeliv
    /\ UNCHANGED <<disp, saved, signalled, buf, alive, ndeliv>>
    /\ UNCHANGED <<lifeVars, strVars, mpc, fmtVars, codecVars>>

\* sighandler_t old = signal(sig, &trap);
Install(sig, here, next) ==
    /\ rpc = here
    /\ alive
    /\ saved' = [saved EXCEPT ![sig] = disp[sig]]
    /\ disp' = [disp EXCEPT ![sig] = "trap"]
    /\ rpc' = next
    /\ UNCHANGED <<n_chans, n_bytes, signalled, nrecv, buf, c, values, tvset,
                   rret, alive, calls, ndeliv, disp0, values0, observed,
                   inwin, refired>>
    /\ UNCHANGED <<lifeVars, extVars>>

InstallInt == Install(SIGINT, "inst_int", "inst_hup")
InstallHup == Install(SIGHUP, "inst_hup", "inst_term")
InstallTerm == Install(SIGTERM, "inst_term", "recv")

\* int n = recv(sockfd, buf, n_bytes, MSG_WAITALL);
\* the device sends frames of the words in the set words.
Read(words) ==
    /\ rpc = "recv"
    /\ alive
    /\ \E frame \in Frames(IF n_chans > 0 THEN n_chans ELSE 0, words) :
         \E r \in ReadResults(frame, n_bytes) :
           /\ nrecv' = r.n
           /\ buf' = StoreBytes(buf, r.data)
    /\ rpc' = "rest_int"
    /\ UNCHANGED <<n_chans, n_bytes, disp, saved, signalled, c, values,
                   tvset, rret, alive, calls, ndeliv, disp0, values0,
                   observed, inwin, refired>>
    /\ UNCHANGED <<lifeVars, extVars>>

\* signal(sig, old);
Restore(sig, here, next) ==
    /\ rpc = here
    /\ alive
    /\ disp' = [disp EXCEPT ![sig] = saved[sig]]
    /\ rpc' = next
    /\ UNCHANGED <<n_chans, n_bytes, saved, signalled, nrecv, buf, c, values,
                   tvset, rret, alive, calls, ndeliv, disp0, values0,
                   observed, inwin, refired>>
    /\ UNCHANGED <<lifeVars, extVars>>

\* SIGHUP restored from the handler saved for SIGINT.
RestoreHupFromSigint ==
    /\ rpc = "rest_hup"
    /\ alive
    /\ disp' = [disp EXCEPT ![SIGHUP] = saved[SIGINT]]
    /\ rpc' = "rest_term"
    /\ UNCHANGED <<n_chans, n_bytes, saved, signalled, nrecv, buf, c, values,
                   tvset, rret, alive, calls, ndeliv, disp0, values0,
                   observed, inwin, refired>>
    /\ UNCHANGED <<lifeVars, extVars>>

RestoreInt == Restore(SIGINT, "rest_int", "rest_hup")
RestoreHup == Restore(SIGHUP, "rest_hup", "rest_term")
RestoreTerm == Restore(SIGTERM, "rest_term", "check")

\* The checks on the recv() result without the one for end of file.
RecvResultNoEof(cnt, want) ==
    IF cnt < 0 THEN -EX_IOERR
    ELSE IF cnt # want THEN -EX_PROTOCOL
    ELSE EX_OK

\* The checks dataq_recv makes on the result of its recv(): the error it
\* returns, or EX_OK to go on to the decoding.
RecvResult(cnt, want) ==
    IF cnt < 0 THEN -EX_IOERR
    ELSE IF cnt = 0 THEN -EX_UNAVAILABLE
    ELSE IF cnt # want THEN -EX_PROTOCOL
    ELSE EX_OK

\* if (signalled) { raise(signalled); return -EX_UNAVAILABLE; }
\* then the timestamp and the checks of n.
Check ==
    /\ rpc = "check"
    /\ alive
    /\ observed' = signalled
    /\ IF signalled # 0
       THEN /\ refired' = [refired EXCEPT ![signalled] = @ + 1]
            /\ signalled' = SignalEffect(signalled, disp, signalled).flag
            /\ alive' = SignalEffect(signalled, disp, signalled).alive
            /\ rret' = IF alive' THEN -EX_UNAVAILABLE ELSE NoRet
            /\ rpc' = "ret"
            /\ UNCHANGED <<tvset, c>>
       ELSE /\ tvset' = TRUE
            /\ IF RecvResult(nrecv, n_bytes) # EX_OK
               THEN /\ rret' = RecvResult(nrecv, n_bytes)
                    /\ rpc' = "ret"
                    /\ UNCHANGED c
               ELSE /\ rpc' = "decode"
                    /\ c' = 0
                    /\ UNCHANGED rret
            /\ UNCHANGED <<signalled, alive, refired>>
    /\ UNCHANGED <<n_chans, n_bytes, disp, saved, nrecv, buf, values, calls,
                   ndeliv, disp0, values0, inwin>>
    /\ UNCHANGED <<lifeVars, extVars>>

\* One turn of  for (c = 0; c < n_chans; c++) { ... }  and the return that
\* follows the loop.
Decode ==
    /\ rpc = "decode"
    /\ alive
    /\ IF c < n_chans
       THEN LET v == BufWord(buf, c)
            IN  IF SyncMismatch(c, Lsbs(v))
                THEN /\ rret' = -EX_PROTOCOL
                     /\ rpc' = "ret"
                     /\ UNCHANGED <<values, c>>
                ELSE /\ values' = [values EXCEPT
                                     ![c] = Conv(Extract14(v), FullScale, Fudge)]
                     /\ c' = (c + 1) % 256
                     /\ UNCHANGED <<rret, rpc>>
       ELSE /\ rret' = EX_OK
            /\ rpc' = "ret"
            /\ UNCHANGED <<values, c>>
    /\ UNCHANGED <<n_chans, n_bytes, disp, saved, signalled, nrecv, buf, tvset,
                   alive, calls, ndeliv, disp0, values0, observed, inwin,
                   refired>>
    /\ UNCHANGED <<lifeVars, extVars>>

\* The caller takes the result; it may call again.
RecvReturn ==
    /\ rpc = "ret"
    /\ alive
    /\ rpc' = "idle"
    /\ UNCHANGED <<n_chans, n_bytes, disp, saved, signalled, nrecv, buf, c,
                   values, tvset, rret, alive, calls, ndeliv, disp0, values0,
                   observed, inwin, refired>>
    /\ UNCHANGED <<lifeVars, extVars>>

\* A termination signal is delivered to the process, for at most maxsig
\* deliveries in all.
Signal(sig, maxsig) ==
    /\ alive
    /\ ndeliv < maxsig
    /\ ndeliv' = ndeliv + 1
    /\ signalled' = SignalEffect(sig, disp, signalled).flag
    /\ alive' = SignalEffect(sig, disp, signalled).alive
    /\ inwin' = IF rpc = "recv" THEN [inwin EXCEPT ![sig] = @ + 1] ELSE inwin
    /\ UNCHANGED <<rpc, n_chans, n_bytes, disp, saved, nrecv, buf, c, values,
                   tvset, rret, calls, disp0, values0, observed, refired>>
    /\ UNCHANGED <<lifeVars, extVars>>

\* Nothing streamed, main not started, nothing formatted or decoded yet.
ExtInit ==
    /\ frames = <<>>
    /\ arrived = 0
    /\ taken = 0
    /\ reads = <<>>
    /\ ndeliv0 = 0
    /\ mpc = "none"
    /\ wreq = 0
    /\ rreq = 0
    /\ in_v = 0
    /\ in_fullscale = FullScale
    /\ in_fudge = Fudge
    /\ out_v14 = 0
    /\ out_conv = 0

\* --------------------------------------------------------- specifications
Init ==
    /\ LifeInit
    /\ disp = [s \in Signals |-> "SIG_DFL"]
    /\ RecvVarsInit
    /\ ExtInit

Next ==
    \/ \E a \in ArgSet : Connect(a)
    \/ Socket
    \/ Setsockopt
    \/ Gethostbyname
    \/ TcpConnect
    \/ StopWrite
    \/ Drain
    \/ CmdWrite
    \/ CmdRecv
    \/ Close
    \/ CloseStop
    \/ CloseDrain
    \/ CloseRelease
    \/ DevHandle
    \/ DevStream

Spec == Init /\ [][Next]_vars

\* dataq_close is straight-line code around one loop: once entered, each of
\* its statements is executed when its turn comes.  Each of them makes one
\* call on the socket, which netlog records.
FairSpec ==
    /\ Spec
    /\ WF_netlog(CloseStop)
    /\ WF_netlog(CloseDrain)
    /\ WF_netlog(CloseRelease)

\* The receiver on an open, streaming connection.
RecvInit ==
    /\ pc = "connected"
    /\ args = [timerscaler |-> 2, rate_divisor |-> 0,
               scanlist |-> <<69, 48, 48, 48>>, n_chans |-> MaxChans]
    /\ fd = "connected"
    /\ cmdno = NumCmds
    /\ wn = 0
    /\ resp = <<>>
    /\ rn = 0
    /\ cmdlog = <<>>
    /\ ret = SockFd
    /\ netlog = <<>>
    /\ sent = <<>>
    /\ devq = <<>>
    /\ rx = <<>>
    /\ streaming = TRUE
    /\ spam = 0
    /\ surplus = FALSE
    /\ answers = <<>>
    /\ closeAt = 0
    /\ disp \in CallerDisps
    /\ RecvVarsInit
    /\ ExtInit

\* One call on any frame, with at most one signal delivered.
RecvNext ==
    \/ \E nch \in 0..MaxChans : RecvCall(nch, 1)
    \/ InstallInt
    \/ InstallHup
    \/ InstallTerm
    \/ Read(Words)
    \/ RestoreInt
    \/ RestoreHup
    \/ RestoreTerm
    \/ Check
    \/ Decode
    \/ RecvReturn
    \/ \E sig \in Signals : Signal(sig, 1)

RecvSpec == RecvInit /\ [][RecvNext]_vars

\* One call on frames of two channels, with several signals delivered.
SigChans == {0, 2}

SigNext ==
    \/ \E nch \in SigChans : RecvCall(nch, 1)
    \/ InstallInt
    \/ InstallHup
    \/ InstallTerm
    \/ Read(SyncWords)
    \/ RestoreInt
    \/ RestoreHup
    \/ RestoreTerm
    \/ Check
    \/ Decode
    \/ RecvReturn
    \/ \E sig \in Signals : Signal(sig, MaxSignals)

SigSpec == RecvInit /\ [][SigNext]_vars

\* ================================================================ claims
Last(seq) == seq[Len(seq)]

\* The writes of dataq_cmd among the writes made so far: those after the stop
\* write of dataq_connect and before the stop write of dataq_close.
CmdSent ==
    SubSeq(sent, 2,
           Len(sent) - (IF pc \in {"cl_drain", "cl_close", "closed"} THEN 1 ELSE 0))

InitLetters == <<88, 77, 76, 67, 83>>

\* C1: dataq_connect sends the acknowledged commands in the order X, M, L00,
\* C, S3; it returns the socket only after five commands that each read back
\* their own text; the first dataq_cmd that fails is the last one made, its
\* error code is what dataq_connect returns, and no later command is written.
C1_InitOrder ==
    /\ Len(CmdSent) <= 5
    /\ \A i \in 1..Len(CmdSent) :
         /\ CmdSent[i].bytes[1] = 0
         /\ CmdSent[i].bytes[2] = InitLetters[i]
    /\ Len(CmdSent) >= 3 =>
         CmdSent[3].bytes = <<0, 76, 48, 48>> \o args.scanlist
    /\ Len(CmdSent) >= 5 => CmdSent[5].bytes = <<0, 83, 51>>
    /\ pc \in {"connected", "cl_stop", "cl_drain", "cl_close", "closed"} =>
         /\ ret = SockFd
         /\ Len(cmdlog) = 5
         /\ Len(CmdSent) = 5
         /\ \A i \in 1..5 :
              /\ cmdlog[i].res = EX_OK
              /\ <<0>> \o cmdlog[i].resp = CmdSent[i].bytes
    /\ \A i \in 1..Len(cmdlog) :
         cmdlog[i].res # EX_OK =>
           /\ i = Len(cmdlog)
           /\ Len(CmdSent) = i
           /\ pc = "failed"
           /\ ret = cmdlog[i].res
           /\ ret < 0

C1_Witness ==
    /\ pc = "failed"
    /\ Len(cmdlog) = 4
    /\ cmdlog[4].res = -EX_PROTOCOL
    /\ Len(sent) = 5

\* C2: with more than 32 channels requested dataq_connect returns the
\* configuration error and has made no system call on the network: no socket,
\* no name resolution, no write.
C2_NoNetworkOnTooManyChans ==
    (pc # "idle" /\ args.n_chans > 32) =>
        /\ pc = "failed"
        /\ ret = -EX_DATAERR
        /\ netlog = <<>>
        /\ sent = <<>>
        /\ devq = <<>>
        /\ fd = "none"

C2_Witness ==
    /\ pc = "failed"
    /\ args.n_chans = 33
    /\ ret = -EX_DATAERR

\* C3 as claimed: an answer of the device whose length differs from that of
\* the command text, shorter or longer, never leads dataq_cmd to success.
C3_AnyOtherLengthRejected ==
    \A i \in 1..Len(cmdlog) :
        (i <= Len(answers) /\ Len(answers[i]) # Len(cmdlog[i].text)) =>
            cmdlog[i].res # EX_OK

\* C3 as amended: dataq_cmd asks for exactly len bytes and succeeds exactly
\* when it read len bytes equal to the text; fewer bytes read are rejected
\* even when they are a prefix of the text, len bytes with a differing byte
\* are rejected, and no byte beyond the first len of an answer is read.
C3_EchoChecked ==
    \A i \in 1..Len(cmdlog) :
        LET e == cmdlog[i]
        IN  e.wn > 0 =>
              /\ e.rn <= Len(e.text)
              /\ Len(e.resp) = IF e.rn > 0 THEN e.rn ELSE 0
              /\ (e.res = EX_OK) <=> (e.rn = Len(e.text) /\ e.resp = e.text)
              /\ (e.rn > 0 /\ e.rn < Len(e.text)) => e.res = -EX_PROTOCOL
              /\ (e.rn = Len(e.text) /\ e.resp # e.text) => e.res = -EX_PROTOCOL

\* An answer one byte longer than the command was accepted.
C3_Witness ==
    \E i \in 1..Len(cmdlog) :
        /\ cmdlog[i].res = EX_OK
        /\ i <= Len(answers)
        /\ Len(answers[i]) > Len(cmdlog[i].text)
        /\ IsPrefix(cmdlog[i].text, answers[i])

\* C4 as claimed: every dataq_cmd offers the null byte and then the text to
\* write(), and a dataq_cmd that returned success had all 1 + len bytes
\* accepted by the transport.
C4_FullWrite ==
    \A i \in 1..Len(cmdlog) :
        /\ CmdSent[i].bytes = <<0>> \o cmdlog[i].text
        /\ cmdlog[i].res = EX_OK => cmdlog[i].wn = 1 + Len(cmdlog[i].text)

\* What dataq_close has done so far, and what it did once it is over: the
\* socket stays open until the last step, and the calls made since the entry
\* are one write of the stop command, the reads of the drain, and one close.
CloseTrace ==
    /\ pc \in {"cl_stop", "cl_drain", "cl_close"} =>
         /\ fd = "connected"
         /\ ENABLED (CloseStop \/ CloseDrain \/ CloseRelease)
    /\ pc = "closed" =>
         LET cl == SubSeq(netlog, closeAt + 1, Len(netlog))
         IN  /\ fd = "closed"
             /\ ret = SockFd
             /\ Len(cl) >= 3
             /\ cl[1] = "write"
             /\ Last(sent).bytes = <<0, 84, 48>>
             /\ \A j \in 2..(Len(cl) - 1) : cl[j] = "recv"
             /\ Last(cl) = "close"

\* C10: dataq_close writes the stop command, drains, and closes the socket,
\* in this order and whatever the write and the drain return; nothing stops
\* it on the way, the caller is told nothing, and every dataq_close that was
\* entered ends with the socket closed.
C10_CloseAlwaysReleases ==
    /\ []CloseTrace
    /\ (pc = "cl_stop") ~> (pc = "closed" /\ fd = "closed")

\* dataq_close released the socket although its stop write failed.
C10_Witness ==
    /\ pc = "closed"
    /\ fd = "closed"
    /\ Last(sent).n = -1

\* The sync bits of a word, read from its binary digits.
Bit(w, k) == (w \div (2 ^ k)) % 2

SyncFits(w, ch) ==
    IF ch = 0 THEN Bit(w, 8) = 1 /\ Bit(w, 0) = 0
    ELSE Bit(w, 8) = 1 /\ Bit(w, 0) = 1

\* The channels of the frame in buf whose sync bits do not fit.
BadChans == {ch \in 0..(n_chans - 1) : ~SyncFits(BufWord(buf, ch), ch)}

FullyRead == observed = 0 /\ nrecv > 0 /\ nrecv = 2 * n_chans

\* C5: with no signal observed, a read of 0 bytes gives Unavailable, a
\* negative result IoError, any other count than 2 * n_chans ProtocolError,
\* and only a read of exactly 2 * n_chans bytes is decoded.
C5_ReadClassified ==
    /\ (rpc = "ret" /\ observed = 0) =>
         /\ nrecv = 0 => rret = -EX_UNAVAILABLE
         /\ nrecv < 0 => rret = -EX_IOERR
         /\ (nrecv > 0 /\ nrecv # 2 * n_chans) => rret = -EX_PROTOCOL
         /\ rret = EX_OK => nrecv = 2 * n_chans
    /\ rpc = "decode" => FullyRead

\* The device closed the connection while a frame was expected.
C5_Witness ==
    /\ rpc = "ret"
    /\ observed = 0
    /\ n_chans = 2
    /\ nrecv = 0
    /\ rret = -EX_UNAVAILABLE

\* C6 as claimed: a call during whose recv() termination signals arrived
\* returns Unavailable, and each signal that arrived has been passed on to
\* its previous disposition exactly once.
C6_RefiredOnce ==
    (rpc = "ret" /\ \E s \in Signals : inwin[s] > 0) =>
        /\ observed # 0
        /\ alive => rret = -EX_UNAVAILABLE
        /\ \A s \in Signals : inwin[s] > 0 => refired[s] = 1

\* C7: when a call has returned, the three dispositions are what they were
\* when it started, whatever it returns; a disposition differs from the
\* caller's only from its signal() before the recv() to its signal() after.
C7_DispositionsRestored ==
    /\ rpc \in {"check", "decode", "ret", "idle", "inst_int"} => disp = disp0
    /\ \A s \in Signals :
         disp[s] # disp0[s] =>
           /\ disp[s] = "trap"
           /\ saved[s] = disp0[s]
           /\ rpc \in {"inst_hup", "inst_term", "recv",
                       "rest_int", "rest_hup", "rest_term"}
    /\ rpc = "recv" => \A s \in Signals : disp[s] = "trap"

\* A call that observed a signal returned with three different dispositions
\* back in place.
C7_Witness ==
    /\ rpc = "ret"
    /\ observed # 0
    /\ alive
    /\ disp0[SIGINT] = "handler"
    /\ disp0[SIGHUP] = "SIG_IGN"
    /\ disp0[SIGTERM] = "SIG_DFL"
    /\ disp = disp0

\* C8: a fully read frame is accepted exactly when channel 0 has the sync
\* bits 0x0100 and every other channel 0x0101; otherwise the call returns
\* ProtocolError at the lowest channel that does not fit; and a call returns
\* success only for such a frame, with every channel's value stored.
C8_SyncDecides ==
    /\ (rpc = "ret" /\ FullyRead) =>
         /\ (rret = EX_OK) <=> (BadChans = {})
         /\ BadChans # {} =>
              /\ rret = -EX_PROTOCOL
              /\ c \in BadChans
              /\ \A ch \in BadChans : c <= ch
    /\ (rpc = "ret" /\ observed = 0 /\ rret = EX_OK) =>
         /\ FullyRead
         /\ \A ch \in 0..(n_chans - 1) : values[ch] # OldValue

\* Channels 1 and 2 of a three-channel frame do not fit; channel 1 is named.
C8_Witness ==
    /\ rpc = "ret"
    /\ FullyRead
    /\ n_chans = 3
    /\ BadChans = {1, 2}
    /\ c = 1
    /\ rret = -EX_PROTOCOL

\* C9 as claimed: a call that fails with a sync error leaves the caller's
\* values array as it was.
C9_NoPartialOutput ==
    (rpc = "ret" /\ FullyRead /\ rret = -EX_PROTOCOL) => values = values0


\* C11 as claimed: when dataq_connect has failed the caller holds an error
\* code only, the socket the call created is not left open, and the device
\* has not been started by the call's S3.
C11_NoPartialSuccess ==
    pc = "failed" =>
        /\ ret < 0
        /\ fd \in {"none", "closed"}
        /\ ~(streaming /\ Len(answers) = NumCmds)


\* ------------------------------------------------------ the sample stream
MaxFrames == 3
MaxCalls == 3

\* Well-formed sample words: sync bits 0x0100 on the first channel (0x0100
\* and 0xFFFE: the 14 data bits all clear, all set) and 0x0101 on the others
\* (0xFFFF).
FirstWords == {256, 65534}
OtherWords == {65535}

WellFormed(k) ==
    {f \in [1..k -> FirstWords \cup OtherWords] :
        \A i \in 1..k : f[i] \in (IF i = 1 THEN FirstWords ELSE OtherWords)}

RECURSIVE Flatten(_)
Flatten(fs) ==
    IF fs = <<>> THEN <<>> ELSE FrameBytes(Head(fs)) \o Flatten(Tail(fs))

\* The bytes in the socket's receive queue: arrived and not yet consumed.
Queued == SubSeq(Flatten(frames), taken + 1, arrived)

\* The device, streaming, puts one more frame of args.n_chans words on the
\* wire.  The client sees the stream only through recv(), so what the device
\* and the network do is taken at the pace of the recv() calls.
DevFrame ==
    /\ streaming
    /\ rpc = "recv"
    /\ Len(frames) < MaxFrames
    /\ \E f \in WellFormed(args.n_chans) : frames' = Append(frames, f)
    /\ UNCHANGED <<arrived, taken, reads>>
    /\ UNCHANGED <<lifeVars, recvVars, ndeliv0, mpc, fmtVars, codecVars>>

\* The network delivers some more of the bytes on the wire to the socket;
\* segments end anywhere, also inside a frame or a word.
Arrive ==
    /\ rpc = "recv"
    /\ \E k \in 1..(2 * args.n_chans * Len(frames) - arrived) :
         arrived' = arrived + k
    /\ UNCHANGED <<frames, taken, reads>>
    /\ UNCHANGED <<lifeVars, recvVars, ndeliv0, mpc, fmtVars, codecVars>>

\* int n = recv(sockfd, buf, n_bytes, MSG_WAITALL) on the stream.
ReadStream ==
    /\ rpc = "recv"
    /\ alive
    /\ \E r \in RecvWaitAll(Queued, n_bytes) :
         /\ nrecv' = r.n
         /\ buf' = StoreBytes(buf, r.data)
         /\ taken' = taken + Len(r.data)
    /\ rpc' = "rest_int"
    /\ UNCHANGED <<n_chans, n_bytes, disp, saved, signalled, c, values,
                   tvset, rret, alive, calls, ndeliv, disp0, values0,
                   observed, inwin, refired>>
    /\ UNCHANGED <<frames, arrived, reads>>
    /\ UNCHANGED <<lifeVars, ndeliv0, mpc, fmtVars, codecVars>>

\* The caller takes the result of a call on the stream.
StreamReturn ==
    /\ rpc = "ret"
    /\ alive
    /\ rpc' = "idle"
    /\ reads' = Append(reads,
           [at |-> taken - (IF nrecv > 0 THEN nrecv ELSE 0), n |-> nrecv,
            res |-> rret, values |-> values])
    /\ UNCHANGED <<n_chans, n_bytes, disp, saved, signalled, nrecv, buf, c,
                   values, tvset, rret, alive, calls, ndeliv, disp0, values0,
                   observed, inwin, refired>>
    /\ UNCHANGED <<frames, arrived, taken>>
    /\ UNCHANGED <<lifeVars, ndeliv0, mpc, fmtVars, codecVars>>

\* The channel counts of the streams looked at.
StreamChans == {1, 2}

\* An open connection to a device streaming frames of args.n_chans words;
\* the signals are left to the caller's handler.
StreamInit ==
    /\ pc = "connected"
    /\ args \in [timerscaler : {2}, rate_divisor : {0},
                 scanlist : {<<69, 48, 48, 48>>}, n_chans : StreamChans]
    /\ fd = "connected"
    /\ cmdno = NumCmds
    /\ wn = 0
    /\ resp = <<>>
    /\ rn = 0
    /\ cmdlog = <<>>
    /\ ret = SockFd
    /\ netlog = <<>>
    /\ sent = <<>>
    /\ devq = <<>>
    /\ rx = <<>>
    /\ streaming = TRUE
    /\ spam = 0
    /\ surplus = FALSE
    /\ answers = <<>>
    /\ closeAt = 0
    /\ disp = [s \in Signals |-> "handler"]
    /\ RecvVarsInit
    /\ ExtInit

StreamNext ==
    \/ DevFrame
    \/ Arrive
    \/ RecvCall(args.n_chans, MaxCalls)
    \/ InstallInt
    \/ InstallHup
    \/ InstallTerm
    \/ ReadStream
    \/ RestoreInt
    \/ RestoreHup
    \/ RestoreTerm
    \/ Check
    \/ Decode
    \/ StreamReturn

StreamSpec == StreamInit /\ [][StreamNext]_vars


\* The frame of the stream that begins at byte offset at, if one does.
FrameAt(at) == frames[at \div (2 * args.n_chans) + 1]

\* C12: every call on the stream that returned success consumed exactly the
\* bytes of one frame the device sent, from its first byte to its last, and
\* stored that frame's values; the frames returned are in the order sent,
\* none of them twice.
C12_FramesInOrder ==
    /\ \A i \in 1..Len(reads) :
         reads[i].res = EX_OK =>
           /\ reads[i].n = 2 * args.n_chans
           /\ reads[i].at % (2 * args.n_chans) = 0
           /\ reads[i].at \div (2 * args.n_chans) < Len(frames)
           /\ \A ch \in 0..(args.n_chans - 1) :
                reads[i].values[ch] =
                  Conv(Extract14(FrameAt(reads[i].at)[ch + 1]), FullScale, Fudge)
    /\ \A i, k \in 1..Len(reads) :
         (i < k /\ reads[i].res = EX_OK /\ reads[k].res = EX_OK) =>
           reads[i].at < reads[k].at

\* A frame was returned, a later read ended inside a frame, and the read
\* after it, of a frame's length across two frames, was rejected.
C12_Witness ==
    /\ Len(reads) = 3
    /\ args.n_chans = 2
    /\ reads[1].res = EX_OK
    /\ reads[2].n \in {1, 2, 3}
    /\ reads[3].n = 4
    /\ reads[3].at % 4 # 0
    /\ reads[3].res = -EX_PROTOCOL


\* ---------------------------------------------------------------- the codec
\* The largest uint16_t, and out_v14 before the statements have run.
WordMax == 65535
Undecoded == -1

\* The full-scale values given: 1, and main's 20.
FullScales == {1, FullScale}

\* Any 16-bit word, before the extraction and the conversion.
CodecInit ==
    /\ LifeInit
    /\ ~streaming
    /\ disp = [s \in Signals |-> "SIG_DFL"]
    /\ RecvVarsInit
    /\ frames = <<>>
    /\ arrived = 0
    /\ taken = 0
    /\ reads = <<>>
    /\ ndeliv0 = 0
    /\ mpc = "none"
    /\ wreq = 0
    /\ rreq = 0
    /\ in_v \in 0..WordMax
    /\ in_fullscale \in FullScales
    /\ in_fudge = Fudge
    /\ out_v14 = Undecoded
    /\ out_conv = 0

\* uint16_t v14 = ((v & 0xFE00) >> 2) | ((v & 0x00FE) >> 1);
\* float conv = fudge * fullscale * (((1.0 * v14) / (1 << 13)) - 1);
DecodeWord ==
    /\ out_v14 = Undecoded
    /\ out_v14' = Extract14(in_v)
    /\ out_conv' = Conv(out_v14', in_fullscale, in_fudge)
    /\ UNCHANGED <<in_v, in_fullscale, in_fudge>>
    /\ UNCHANGED <<lifeVars, recvVars, strVars, ndeliv0, mpc, fmtVars>>

CodecNext == DecodeWord

CodecSpec == CodecInit /\ [][CodecNext]_vars

\* C13: the conversion is strictly increasing in the 14-bit value; with
\* fudge = fullscale = 1 it takes 2^13 to 0, 0 to -1 and 2^14 - 1 to
\* 8191/8192, just under +1 (out_conv is the numerator over 2^13); with
\* another full scale the end points scale with it.
C13_Calibration ==
    out_v14 # Undecoded =>
        /\ out_v14 < 16383 =>
             out_conv < Conv(out_v14 + 1, in_fullscale, in_fudge)
        /\ out_v14 = 8192 => out_conv = 0
        /\ out_v14 = 0 => out_conv = -(in_fullscale * in_fudge * 8192)
        /\ out_v14 = 16383 =>
             /\ out_conv < in_fullscale * in_fudge * 8192
             /\ out_conv = in_fullscale * in_fudge * 8192
                           - in_fullscale * in_fudge
        /\ (in_fullscale = 1 /\ in_fudge = 1) => out_conv = out_v14 - 8192

\* The largest 14-bit value converted with fudge = fullscale = 1.
C13_Witness ==
    /\ out_v14 = 16383
    /\ in_fullscale = 1
    /\ in_fudge = 1
    /\ out_conv = 8191

\* A word with its two sync bits replaced by s.
WithSync(w, s) == w - Lsbs(w) + s

\* The word that carries the 14-bit value x with the sync bits s: bits 13..7
\* of x in bits 15..9, bits 6..0 of x in bits 7..1.
Encode14(x, s) == (x \div 128) * 512 + (x % 128) * 2 + s

\* C14: the extracted value lies in 0..16383 and is the same whatever the two
\* sync bits are; encoding it again with either correct sync marker and
\* extracting gives the same value, and gives back the word itself when the
\* word had that marker; every 14-bit value is the extraction of a word.
C14_ExtractRoundTrip ==
    out_v14 # Undecoded =>
        /\ out_v14 \in 0..16383
        /\ \A s \in {0, 1, 256, 257} :
             Extract14(WithSync(in_v, s)) = out_v14
        /\ \A s \in {256, 257} :
             /\ Encode14(out_v14, s) \in 0..WordMax
             /\ Lsbs(Encode14(out_v14, s)) = s
             /\ Extract14(Encode14(out_v14, s)) = out_v14
             /\ Lsbs(in_v) = s => Encode14(out_v14, s) = in_v
        /\ Extract14(Encode14(in_v % 16384, 256)) = in_v % 16384

\* The word 0xFFFE, marker 0x0100, all data bits set.
C14_Witness ==
    /\ in_v = 65534
    /\ out_v14 = 16383
    /\ Encode14(out_v14, 256) = in_v


\* Whether any of the bytes is a byte of sample data.
HasStreamByte(bytes) == \E j \in 1..Len(bytes) : bytes[j] \in StreamBytes

\* C15 as claimed: no byte of sample data is ever read as part of the echo
\* of one of the commands that precede S3, whenever the device sent it.
C15_NoStreamByteInEcho ==
    \A i \in 1..Len(cmdlog) :
        i < NumCmds => ~HasStreamByte(cmdlog[i].resp)


\* ------------------------------------------------- the stream, without end
\* Entering dataq_recv(sockfd, values, nch, fullscale, fudge, &tv) from a
\* loop that calls it any number of times.
EnterRecv(nch) ==
    /\ rpc = "idle"
    /\ alive
    /\ n_chans' = nch
    /\ n_bytes' = 2 * nch
    /\ values' = [ch \in 0..(MaxChans - 1) |-> OldValue]
    /\ values0' = values'
    /\ disp0' = disp
    /\ observed' = 0
    /\ inwin' = [s \in Signals |-> 0]
    /\ refired' = [s \in Signals |-> 0]
    /\ tvset' = FALSE
    /\ rret' = NoRet
    /\ nrecv' = 0
    /\ c' = 0
    /\ rpc' = "inst_int"
    /\ ndeliv0' = ndeliv
    /\ UNCHANGED <<disp, saved, signalled, buf, alive, ndeliv, calls>>
    /\ UNCHANGED <<lifeVars, strVars, fmtVars, codecVars>>

\* The caller calls dataq_recv again, as its loop does.
NextCall(nch) ==
    /\ EnterRecv(nch)
    /\ UNCHANGED mpc

\* int n = recv(sockfd, buf, n_bytes, MSG_WAITALL) on a stream that goes on:
\* of the frames sent only those not yet wholly consumed are kept.  A read
\* that starts on a frame boundary may end early (timeout); once the stream
\* is off the boundary nothing else goes wrong: the device keeps sending and
\* every read returns the n_bytes asked for.
ReadWindow ==
    /\ rpc = "recv"
    /\ alive
    /\ \E r \in RecvWaitAll(Queued, n_bytes) :
         /\ taken % n_bytes # 0 => r.n = n_bytes
         /\ nrecv' = r.n
         /\ buf' = StoreBytes(buf, r.data)
         /\ IF taken + Len(r.data) >= n_bytes
            THEN /\ frames' = Tail(frames)
                 /\ arrived' = arrived - n_bytes
                 /\ taken' = taken + Len(r.data) - n_bytes
            ELSE /\ taken' = taken + Len(r.data)
                 /\ UNCHANGED <<frames, arrived>>
    /\ rpc' = "rest_int"
    /\ UNCHANGED <<n_chans, n_bytes, disp, saved, signalled, c, values,
                   tvset, rret, alive, calls, ndeliv, disp0, values0,
                   observed, inwin, refired>>
    /\ UNCHANGED reads
    /\ UNCHANGED <<lifeVars, ndeliv0, mpc, fmtVars, codecVars>>

\* The steps of the caller's loop around dataq_recv.
ResyncCaller ==
    \/ NextCall(args.n_chans)
    \/ InstallInt
    \/ InstallHup
    \/ InstallTerm
    \/ ReadWindow
    \/ RestoreInt
    \/ RestoreHup
    \/ RestoreTerm
    \/ Check
    \/ Decode
    \/ RecvReturn

ResyncNext ==
    \/ DevFrame
    \/ Arrive
    \/ ResyncCaller

\* The device keeps sending, the network keeps delivering, the caller keeps
\* calling.
ResyncSpec ==
    /\ StreamInit
    /\ [][ResyncNext]_vars
    /\ WF_vars(DevFrame)
    /\ WF_vars(Arrive)
    /\ WF_vars(ResyncCaller)

\* C16 as claimed: after a call has rejected a frame, with the device
\* sending on and nothing else going wrong, a later call returns a frame.
C16_EventuallyRecovers ==
    (rpc = "ret" /\ rret = -EX_PROTOCOL) ~> (rpc = "ret" /\ rret = EX_OK)


\* ------------------------------------------------------- call after call
\* A caller with dispositions of its own, none of them the driver's trap().
FlagInit ==
    /\ RecvInit
    /\ \A s \in Signals : disp[s] # "trap"

\* Several calls in a row, with signals delivered at any moment.
FlagNext ==
    \/ \E nch \in SigChans : RecvCall(nch, MaxCalls)
    \/ InstallInt
    \/ InstallHup
    \/ InstallTerm
    \/ Read(SyncWords)
    \/ RestoreInt
    \/ RestoreHup
    \/ RestoreTerm
    \/ Check
    \/ Decode
    \/ RecvReturn
    \/ \E sig \in Signals : Signal(sig, MaxSignals)

FlagSpec == FlagInit /\ [][FlagNext]_vars

\* C17 as claimed: a call finds the flag set, re-raises and reports the
\* shutdown only if a termination signal was delivered while that call was
\* running.
C17_FlagTransient ==
    (rpc \in {"ret", "idle"} /\ calls > 0 /\ observed # 0) => ndeliv > ndeliv0


\* -------------------------------------------------------------------- main
\* The channel count main polls, scaled down from its 6 to the buffer kept.
MainChans == 2

\* main after dataq_connect has returned the socket: the process has the
\* dispositions it was started with, the default ones or (as under nohup)
\* ignoring ones.
MainInit ==
    /\ pc = "connected"
    /\ args = [timerscaler |-> 2, rate_divisor |-> 0,
               scanlist |-> <<69, 48, 48, 48>>, n_chans |-> MainChans]
    /\ fd = "connected"
    /\ cmdno = NumCmds
    /\ wn = 0
    /\ resp = <<>>
    /\ rn = 0
    /\ cmdlog = <<>>
    /\ ret = SockFd
    /\ netlog = <<>>
    /\ sent = <<>>
    /\ devq = <<>>
    /\ rx = <<>>
    /\ streaming = TRUE
    /\ spam = 0
    /\ surplus = FALSE
    /\ answers = <<>>
    /\ closeAt = 0
    /\ disp \in {[s \in Signals |-> d] : d \in {"SIG_DFL", "SIG_IGN"}}
    /\ RecvVarsInit
    /\ frames = <<>>
    /\ arrived = 0
    /\ taken = 0
    /\ reads = <<>>
    /\ ndeliv0 = 0
    /\ mpc = "sig_int"
    /\ wreq = 0
    /\ rreq = 0
    /\ in_v = 0
    /\ in_fullscale = FullScale
    /\ in_fudge = Fudge
    /\ out_v14 = 0
    /\ out_conv = 0

\* signal(sig, &trap); in main, the previous disposition dropped.
MainSignal(sig, here, next) ==
    /\ mpc = here
    /\ alive
    /\ disp' = [disp EXCEPT ![sig] = "trap"]
    /\ mpc' = next
    /\ UNCHANGED <<rpc, n_chans, n_bytes, saved, signalled, nrecv, buf, c,
                   values, tvset, rret, alive, calls, ndeliv, disp0, values0,
                   observed, inwin, refired>>
    /\ UNCHANGED <<lifeVars, strVars, ndeliv0, fmtVars, codecVars>>

MainSigInt == MainSignal(SIGINT, "sig_int", "sig_hup")
MainSigHup == MainSignal(SIGHUP, "sig_hup", "sig_term")
MainSigTerm == MainSignal(SIGTERM, "sig_term", "while")

\* while (!signalled)
MainWhile ==
    /\ mpc = "while"
    /\ alive
    /\ mpc' = IF signalled = 0 THEN "call" ELSE "close"
    /\ UNCHANGED <<lifeVars, recvVars, strVars, ndeliv0, fmtVars, codecVars>>

\* int ret = dataq_recv(sockfd, values, n_chans, fullscale, fudge, &tv);
MainCall ==
    /\ mpc = "call"
    /\ EnterRecv(MainChans)
    /\ mpc' = "in_recv"

\* The rest of the loop body printing whatever the call left behind.
MainAfterPrintsAll ==
    /\ mpc = "in_recv"
    /\ rpc = "ret"
    /\ alive
    /\ rpc' = "idle"
    /\ mpc' = IF signalled # 0 THEN "close" ELSE "print"
    /\ UNCHANGED <<n_chans, n_bytes, disp, saved, signalled, nrecv, buf, c,
                   values, tvset, rret, alive, calls, ndeliv, disp0, values0,
                   observed, inwin, refired>>
    /\ UNCHANGED <<lifeVars, strVars, ndeliv0, fmtVars, codecVars>>

\* if (signalled) break;  if (ret < 0) continue;  else go on to print.
MainAfter ==
    /\ mpc = "in_recv"
    /\ rpc = "ret"
    /\ alive
    /\ rpc' = "idle"
    /\ mpc' = IF signalled # 0 THEN "close"
              ELSE IF rret < 0 THEN "while"
              ELSE "print"
    /\ UNCHANGED <<n_chans, n_bytes, disp, saved, signalled, nrecv, buf, c,
                   values, tvset, rret, alive, calls, ndeliv, disp0, values0,
                   observed, inwin, refired>>
    /\ UNCHANGED <<lifeVars, strVars, ndeliv0, fmtVars, codecVars>>

\* The printf calls of the loop body: the timestamp and the values.
MainPrint ==
    /\ mpc = "print"
    /\ alive
    /\ mpc' = "while"
    /\ UNCHANGED <<lifeVars, recvVars, strVars, ndeliv0, fmtVars, codecVars>>

\* dataq_close(sockfd); after the loop.
MainClose ==
    /\ mpc = "close"
    /\ alive
    /\ Close

\* return 0;
MainReturn ==
    /\ mpc = "close"
    /\ pc = "closed"
    /\ alive
    /\ mpc' = "done"
    /\ UNCHANGED <<lifeVars, recvVars, strVars, ndeliv0, fmtVars, codecVars>>

\* The statements of main and of the functions it calls.
MainThread ==
    \/ MainSigInt
    \/ MainSigHup
    \/ MainSigTerm
    \/ MainWhile
    \/ MainCall
    \/ InstallInt
    \/ InstallHup
    \/ InstallTerm
    \/ Read(SyncWords)
    \/ RestoreInt
    \/ RestoreHup
    \/ RestoreTerm
    \/ Check
    \/ Decode
    \/ MainAfter
    \/ MainPrint
    \/ MainClose
    \/ CloseStop
    \/ CloseDrain
    \/ CloseRelease
    \/ MainReturn

MainNext ==
    \/ MainThread
    \/ \E sig \in Signals : Signal(sig, MaxSignals)

\* The process keeps running as long as it has a statement to execute; the
\* recv() calls return, at the latest on the socket's one-second timeout.
MainSpec ==
    /\ MainInit
    /\ [][MainNext]_vars
    /\ WF_vars(MainThread)


\* What holds at every step of main: only a frame dataq_recv returned with
\* success and without a signal seen is printed, the loop is left only once
\* a signal was recorded, dataq_close runs only after the loop, and at the
\* return the device was stopped once and the socket closed once.
MainInv ==
    /\ mpc = "print" => (rret = EX_OK /\ rpc = "idle")
    /\ mpc \in {"close", "done"} => signalled # 0
    /\ pc # "connected" => mpc \in {"close", "done"}
    /\ mpc = "done" =>
          /\ pc = "closed"
          /\ fd = "closed"
          /\ Len(SelectSeq(netlog, LAMBDA e : e = "close")) = 1
          /\ Len(SelectSeq(netlog, LAMBDA e : e = "write")) = 1

\* C18: main fetches frames in a loop, skips without printing any frame
\* whose reception failed, and, once a termination signal reaches the trap
\* handler that main installed for all three signals, leaves the loop, runs
\* dataq_close exactly once and returns.
C18_LoopUntilSignal ==
    /\ []MainInv
    /\ (mpc \notin {"sig_int", "sig_hup", "sig_term"} /\ signalled # 0)
          ~> (mpc = "done" /\ pc = "closed" /\ fd = "closed")

\* C18 witness: a signal arrived during the loop, after a failed frame had
\* been skipped, and main closed the connection and returned.
C18_Witness ==
    /\ mpc = "done"
    /\ pc = "closed"
    /\ signalled # 0
    /\ \E i \in 1..Len(netlog) : netlog[i] = "close"

\* C18 as stated: every delivered termination signal leads to the loop being
\* left and dataq_close being called.
C18_AnySignalLeadsToClose ==
    (ndeliv > 0) ~> (pc = "closed")


\* ---------------------------------------------- dataq_recv, any channel count
BUFSIZE == 512

\* static uint16_t buf[BUFSIZE]: the bytes the receive buffer holds.
BufCapacity == 2 * BUFSIZE

\* How far below zero the channel counts tried go.
MaxNeg == 2

\* The channel counts dataq_connect lets through its sanity check.
AcceptedChans == {nch \in (-MaxNeg)..(MAXCHAN + 1) : ~TooManyChans(nch)}

\* The conversion of an int to the 64-bit size_t that recv() takes as its
\* length, as four 16-bit limbs, the most significant one first.
SizeT(x) ==
    IF x >= 0 THEN <<0, 0, x \div 65536, x % 65536>>
    ELSE LET y == x + 2147483647 + 1
         IN  <<65535, 65535, 32768 + (y \div 65536), y % 65536>>

\* A size_t not greater than a bound below 2^16.
SizeLeq(s, bound) == s[1] = 0 /\ s[2] = 0 /\ s[3] = 0 /\ s[4] <= bound

\* The frames the device sends for k channels: a well-formed one, and one
\* whose last word has lost its sync bits.
ChanFrames(k) ==
    {[i \in 1..k |-> IF i = 1 THEN 256 ELSE 65535],
     [i \in 1..k |-> IF i = k THEN 0 ELSE IF i = 1 THEN 256 ELSE 65535]}

\* The first m bytes of a stream that repeats one frame.
StreamPrefix(frame, m) ==
    [j \in 1..m |-> FrameBytes(frame)[((j - 1) % (2 * Len(frame))) + 1]]

\* How many bytes of the stream are in the socket when recv() gives up
\* waiting: none, one, a frame, more than the receive buffer holds.
Backlogs(k) == {0, 1, 2 * k, BufCapacity + 2}

\* A caller that connected with any accepted channel count and passes the
\* same count to dataq_recv; the device streams frames of its scan list.
ChanInit ==
    /\ pc = "connected"
    /\ args \in [timerscaler : {2}, rate_divisor : {0},
                 scanlist : {<<69, 48, 48, 48>>}, n_chans : AcceptedChans]
    /\ fd = "connected"
    /\ cmdno = NumCmds
    /\ wn = 0
    /\ resp = <<>>
    /\ rn = 0
    /\ cmdlog = <<>>
    /\ ret = SockFd
    /\ netlog = <<>>
    /\ sent = <<>>
    /\ devq = <<>>
    /\ rx = <<>>
    /\ streaming = TRUE
    /\ spam = 0
    /\ surplus = FALSE
    /\ answers = <<>>
    /\ closeAt = 0
    /\ disp = [s \in Signals |-> "handler"]
    /\ rpc = "idle"
    /\ n_chans = 0
    /\ n_bytes = 0
    /\ saved = [s \in Signals |-> "SIG_DFL"]
    /\ signalled = 0
    /\ nrecv = 0
    /\ buf = [i \in 1..BufCapacity |-> 0]
    /\ c = 0
    /\ values = [ch \in 0..(MAXCHAN - 1) |-> OldValue]
    /\ tvset = FALSE
    /\ rret = NoRet
    /\ alive = TRUE
    /\ calls = 0
    /\ ndeliv = 0
    /\ disp0 = disp
    /\ values0 = values
    /\ observed = 0
    /\ inwin = [s \in Signals |-> 0]
    /\ refired = [s \in Signals |-> 0]
    /\ frames \in {<<f>> : f \in ChanFrames(IF args.n_chans > 0
                                             THEN args.n_chans ELSE 1)}
    /\ arrived \in Backlogs(Len(frames[1]))
    /\ taken = 0
    /\ reads = <<>>
    /\ ndeliv0 = 0
    /\ mpc = "none"
    /\ wreq = 0
    /\ rreq = SizeT(0)
    /\ in_v = 0
    /\ in_fullscale = FullScale
    /\ in_fudge = Fudge
    /\ out_v14 = 0
    /\ out_conv = 0

\* The one call dataq_recv(sockfd, values, args.n_chans, ...) with the
\* caller's array float values[MAXCHAN].
ChanCall ==
    /\ rpc = "idle"
    /\ alive
    /\ calls < 1
    /\ calls' = calls + 1
    /\ n_chans' = args.n_chans
    /\ n_bytes' = 2 * args.n_chans
    /\ values' = [ch \in 0..(MAXCHAN - 1) |-> OldValue]
    /\ values0' = values'
    /\ disp0' = disp
    /\ observed' = 0
    /\ inwin' = [s \in Signals |-> 0]
    /\ refired' = [s \in Signals |-> 0]
    /\ tvset' = FALSE
    /\ rret' = NoRet
    /\ nrecv' = 0
    /\ c' = 0
    /\ rpc' = "inst_int"
    /\ ndeliv0' = ndeliv
    /\ UNCHANGED <<disp, saved, signalled, buf, alive, ndeliv>>
    /\ UNCHANGED <<lifeVars, strVars, mpc, fmtVars, codecVars>>

\* int n = recv(sockfd, buf, n_bytes, MSG_WAITALL); the length is n_bytes
\* converted to size_t.  The kernel fails the call, or stores what has
\* arrived up to the length asked for; what does not fit the buffer lands
\* behind it.
ChanRead ==
    /\ rpc = "recv"
    /\ alive
    /\ rreq' = SizeT(n_bytes)
    /\ \E k \in {-1, 0, IF SizeLeq(rreq', arrived) THEN rreq'[4] ELSE arrived} :
         /\ nrecv' = k
         /\ buf' = StoreBytes(buf, StreamPrefix(frames[1],
                                                IF k > 0 THEN k ELSE 0))
         /\ taken' = IF k > 0 THEN k ELSE 0
    /\ rpc' = "rest_int"
    /\ UNCHANGED <<n_chans, n_bytes, disp, saved, signalled, c, values,
                   tvset, rret, alive, calls, ndeliv, disp0, values0,
                   observed, inwin, refired>>
    /\ UNCHANGED <<lifeVars, frames, arrived, reads, ndeliv0, mpc, wreq,
                   codecVars>>

ChanNext ==
    \/ ChanCall
    \/ InstallInt
    \/ InstallHup
    \/ InstallTerm
    \/ ChanRead
    \/ RestoreInt
    \/ RestoreHup
    \/ RestoreTerm
    \/ Check
    \/ Decode
    \/ RecvReturn

ChanSpec == ChanInit /\ [][ChanNext]_vars

\* C19: for every channel count dataq_connect accepts, zero and negative
\* ones included, dataq_recv asks recv() for a byte count between 0 and the
\* 1024 bytes of its buffer and no more than that is stored, the decode loop
\* takes at most n_chans turns of its 8-bit counter, and of the caller's
\* array only the positions 0..n_chans-1 are written.
C19_RequestFitsBuffer ==
    rpc # "idle" =>
        /\ SizeLeq(rreq, BufCapacity)
        /\ nrecv <= BufCapacity
        /\ c < 256
        /\ (rpc = "decode" => c <= n_chans)
        /\ \A ch \in DOMAIN values : ch >= c => values[ch] = OldValue


\* ------------------------------------------- dataq_cmd, scan lists of any length
\* The longest scan list tried.
MaxScanLen == 256

\* A scan list of n characters: E000E000...
ScanListOf(n) == [i \in 1..n |-> IF i % 4 = 1 THEN 69 ELSE 48]

\* dataq_connect at its initialization sequence, called with a scan list of
\* any length and with parameters that format to two or to eight digits.
FmtInit ==
    /\ pc = "cmd_write"
    /\ args \in [timerscaler : {2, -1}, rate_divisor : {0},
                 scanlist : {ScanListOf(n) : n \in 0..MaxScanLen},
                 n_chans : {6, -1}]
    /\ fd = "connected"
    /\ cmdno = 0
    /\ wn = 0
    /\ resp = <<>>
    /\ rn = 0
    /\ cmdlog = <<>>
    /\ ret = NoRet
    /\ netlog = <<>>
    /\ sent = <<>>
    /\ devq = <<>>
    /\ rx = <<>>
    /\ streaming = FALSE
    /\ spam = 0
    /\ surplus = FALSE
    /\ answers = <<>>
    /\ closeAt = 0
    /\ disp = [s \in Signals |-> "SIG_DFL"]
    /\ RecvVarsInit
    /\ ExtInit

\* One call of dataq_cmd from the initialization sequence, the device
\* echoing it: len = vsnprintf(...); write(sockfd, cmd, 1 + len);
\* recv(sockfd, resp, len, MSG_WAITALL).
CmdFormat ==
    /\ pc = "cmd_write"
    /\ cmdno < NumCmds
    /\ cmdno' = cmdno + 1
    /\ LET len == VsnprintfLen(CmdText(args, cmdno'))
       IN  /\ wreq' = 1 + len
           /\ rreq' = len
    /\ pc' = IF cmdno' = NumCmds THEN "connected" ELSE "cmd_write"
    /\ ret' = IF cmdno' = NumCmds THEN SockFd ELSE ret
    /\ UNCHANGED <<args, fd, wn, resp, rn, cmdlog, netlog, sent, devq, rx,
                   streaming, spam, surplus, answers, closeAt>>
    /\ UNCHANGED <<recvVars, strVars, ndeliv0, mpc, codecVars>>

FmtNext == CmdFormat

FmtSpec == FmtInit /\ [][FmtNext]_vars

\* C20: for every command dataq_cmd formats, whatever the length of the scan
\* list, the 1 + len bytes it writes from cmd[256] and the len bytes it asks
\* to read into resp[256] are at most 256.
C20_CmdCountsFitBuffers ==
    cmdno > 0 => (wreq <= CmdBufSize /\ rreq <= CmdBufSize)

====
